---- MODULE Spec2Model ----
(***************************************************************************)
(* Model of xpra/codecs/evdi/evdi_compat.c: the evdi_connect_compat shim.  *)
(*                                                                         *)
(* The translation unit is preprocessed once against the libevdi headers   *)
(* (EVDI_CONNECT_COMPAT, LIBEVDI_VERSION_MAJOR, LIBEVDI_VERSION_MINOR),     *)
(* which fixes whether evdi_connect_compat is defined here and which call  *)
(* of evdi_connect its body holds.  Afterwards the caller calls the shim   *)
(* any number of times; every call is one synchronous step.                *)
(***************************************************************************)
EXTENDS Integers, Sequences, FiniteSets, TLC

(* ---- bounds of the model ---------------------------------------------- *)
\* library versions range over 0..MaxMajor x 0..MaxMinor
MaxMajor == 2
MaxMinor == 13

Majors == 0..MaxMajor
Minors == 0..MaxMinor

\* the values a caller passes
Handles  == {"h1", "h2"}
\* an EDID buffer is a pointer together with its length in bytes
Buffers  == { [edid |-> "edidA", edid_length |-> 128],
              [edid |-> "edidB", edid_length |-> 256] }
EdidPtrs == { b.edid : b \in Buffers }
EdidData == {"monitorX", "monitorY"}
Limits   == {60, 1000}

\* what the call expression evdi_connect(...) can evaluate to in the library
\* (or a test double of it), and what a function declared void hands back
ConnectResults == {"connected", "refused"}
Void == "void"

\* the five parameters of evdi_connect_compat
Args == { [handle |-> h, edid |-> b.edid, edid_length |-> b.edid_length,
           pixel_area_limit |-> al, pixel_per_second_limit |-> pl] :
          h \in Handles, b \in Buffers, al \in Limits, pl \in Limits }

VARIABLES
    hdr,      \* what evdi_lib.h provides: [compat, major, minor]
    phase,    \* "configure" before preprocessing, "built" after
    unit,     \* what this file contributes to the build: [defs, form]
    edidMem,  \* the caller's EDID bytes, by pointer
    recent    \* the two most recent calls of the shim, oldest first

vars == <<hdr, phase, unit, edidMem, recent>>

(* ---- the preprocessor -------------------------------------------------- *)
\* variant: the #ifndef guard left out
ShimDefinitions_unguarded(compat) == 1

\* #ifndef EVDI_CONNECT_COMPAT ... #endif: the number of definitions of
\* evdi_connect_compat this file contributes
ShimDefinitions(compat) == IF compat THEN 0 ELSE 1

\* variant: the minor threshold off by one
UseFiveArgs_minor12(major, minor) == major > 1 \/ minor > 12

\* #if LIBEVDI_VERSION_MAJOR>1 || LIBEVDI_VERSION_MINOR>11
UseFiveArgs(major, minor) == major > 1 \/ minor > 11

\* the call form compiled into the body: 5, 4, or 0 when there is no body
CallForm(h) ==
    IF ShimDefinitions(h.compat) = 0 THEN 0
    ELSE IF UseFiveArgs(h.major, h.minor) THEN 5 ELSE 4

(* ---- the shim ----------------------------------------------------------- *)
\* variant: the older form is handed the pixel-area limit
ConnectArgv_area(form, a) ==
    IF form = 5
    THEN <<a.handle, a.edid, a.edid_length, a.pixel_area_limit,
           a.pixel_per_second_limit>>
    ELSE <<a.handle, a.edid, a.edid_length, a.pixel_area_limit>>

\* the argument list of the call of evdi_connect in the compiled branch
ConnectArgv(form, a) ==
    IF form = 5
    THEN <<a.handle, a.edid, a.edid_length, a.pixel_area_limit,
           a.pixel_per_second_limit>>
    ELSE <<a.handle, a.edid, a.edid_length, a.pixel_per_second_limit>>

\* variant: the function is declared with the type of evdi_connect(...) and
\* hands its value back
evdi_connect_compat_returning(form, a, r) ==
    [ args    |-> a,
      invoked |-> << [argv |-> ConnectArgv(form, a), result |-> r] >>,
      ret     |-> r ]

\* variant: a refused connect is tried again with the other call form
evdi_connect_compat_fallback(form, a, r) ==
    [ args    |-> a,
      invoked |-> IF r = "refused"
                  THEN << [argv |-> ConnectArgv(form, a), result |-> r],
                          [argv |-> ConnectArgv(9 - form, a), result |-> r] >>
                  ELSE << [argv |-> ConnectArgv(form, a), result |-> r] >>,
      ret     |-> Void ]

\* variant: a refused connect is repeated once
evdi_connect_compat_retry(form, a, r) ==
    [ args    |-> a,
      invoked |-> IF r = "refused"
                  THEN << [argv |-> ConnectArgv(form, a), result |-> r],
                          [argv |-> ConnectArgv(form, a), result |-> r] >>
                  ELSE << [argv |-> ConnectArgv(form, a), result |-> r] >>,
      ret     |-> Void ]

\* variant: the handle of the call before is kept and used again
evdi_connect_compat_cached(form, a, r) ==
    [ args    |-> a,
      invoked |-> << [argv |-> ConnectArgv(form,
                         IF recent = << >> THEN a
                         ELSE [a EXCEPT !.handle =
                                   recent[Len(recent)].args.handle]),
                      result |-> r] >>,
      ret     |-> Void ]

\* one run of evdi_connect_compat with arguments a, where the evaluation of
\* evdi_connect(...) yields r: the calls of evdi_connect it makes, and what
\* the caller gets back from a function declared void
evdi_connect_compat(form, a, r) ==
    [ args    |-> a,
      invoked |-> << [argv |-> ConnectArgv(form, a), result |-> r] >>,
      ret     |-> Void ]

(* ---- the state machine --------------------------------------------------- *)
\* the record of calls keeps the newest call and the one before it
Remember(calls, c) ==
    IF calls = << >> THEN <<c>> ELSE <<calls[Len(calls)], c>>

Init ==
    /\ hdr \in [compat : BOOLEAN, major : Majors, minor : Minors]
    /\ phase = "configure"
    /\ unit = [defs |-> 0, form |-> 0]
    /\ edidMem \in [EdidPtrs -> EdidData]
    /\ recent = << >>

\* the file is preprocessed and compiled once against the headers
Compile ==
    /\ phase = "configure"
    /\ phase' = "built"
    /\ unit' = [defs |-> ShimDefinitions(hdr.compat), form |-> CallForm(hdr)]
    /\ UNCHANGED <<hdr, edidMem, recent>>

\* the caller calls the shim defined by this file
Call(a, r) ==
    /\ phase = "built"
    /\ unit.defs = 1
    /\ recent' = Remember(recent, evdi_connect_compat(unit.form, a, r))
    /\ UNCHANGED <<hdr, phase, unit, edidMem>>

\* the caller owns the EDID buffers and may rewrite them between calls
CallerWriteEdid(p, d) ==
    /\ edidMem[p] # d
    /\ edidMem' = [edidMem EXCEPT ![p] = d]
    /\ UNCHANGED <<hdr, phase, unit, recent>>

Next ==
    \/ Compile
    \/ \E a \in Args, r \in ConnectResults : Call(a, r)
    \/ \E p \in EdidPtrs, d \in EdidData : CallerWriteEdid(p, d)

Spec == Init /\ [][Next]_vars

TypeOK ==
    /\ phase \in {"configure", "built"}
    /\ unit.defs \in {0, 1}
    /\ unit.form \in {0, 4, 5}
    /\ Len(recent) <= 2

(* ---- vocabulary of the properties ----------------------------------------- *)
\* the version ranges as the documentation words them
NewerThan_1_11(major, minor) == major > 1 \/ (major = 1 /\ minor > 11)
AtMost_1_11(major, minor)    == major < 1 \/ (major = 1 /\ minor <= 11)

\* (M1, m1) <= (M2, m2) in lexicographic order
VersionLeq(M1, m1, M2, m2) == M1 < M2 \/ (M1 = M2 /\ m1 <= m2)

\* the argument lists of the calls of evdi_connect one call of the shim makes
ArgvOf(c) == [k \in DOMAIN c.invoked |-> c.invoked[k].argv]

FiveOf(a) == <<a.handle, a.edid, a.edid_length, a.pixel_area_limit,
               a.pixel_per_second_limit>>
FourOf(a) == <<a.handle, a.edid, a.edid_length, a.pixel_per_second_limit>>

\* two calls agree on everything but, possibly, the pixel-area limit
AgreeButArea(a, b) ==
    /\ a.handle = b.handle
    /\ a.edid = b.edid
    /\ a.edid_length = b.edid_length
    /\ a.pixel_per_second_limit = b.pixel_per_second_limit

Called == Len(recent) >= 1
Twice  == Len(recent) = 2

(* ---- C1 -------------------------------------------------------------------- *)
\* C1: for every version (major, minor) the shim calls evdi_connect with five
\* arguments if and only if major > 1, or major = 1 and minor > 11; for every
\* other version, every major = 0 included, it calls it with four.
C1_FiveIffNewerThan_1_11 ==
    \A i \in DOMAIN recent : \A k \in DOMAIN recent[i].invoked :
        /\ Len(recent[i].invoked[k].argv) \in {4, 5}
        /\ Len(recent[i].invoked[k].argv) = 5
              <=> NewerThan_1_11(hdr.major, hdr.minor)

(* ---- C2 -------------------------------------------------------------------- *)
\* C2: built against a version >= 1.12 (major > 1, or major = 1 and
\* minor > 11), every call of the shim calls evdi_connect with the five
\* values it was given, unchanged and in the same order.
C2_NewerForwardsAllFive ==
    NewerThan_1_11(hdr.major, hdr.minor) =>
        \A i \in DOMAIN recent :
            /\ Len(recent[i].invoked) >= 1
            /\ \A k \in DOMAIN recent[i].invoked :
                   recent[i].invoked[k].argv = FiveOf(recent[i].args)

\* a call under version 1.12 whose two limits differ
C2_Witness ==
    /\ hdr.major = 1 /\ hdr.minor = 12
    /\ Called
    /\ recent[Len(recent)].args.pixel_area_limit
           # recent[Len(recent)].args.pixel_per_second_limit
    /\ recent[Len(recent)].invoked[1].argv = FiveOf(recent[Len(recent)].args)

(* ---- C3 -------------------------------------------------------------------- *)
\* C3: built against any version <= 1.11 (major < 1, or major = 1 and
\* minor <= 11), every call of the shim calls evdi_connect with exactly
\* (handle, edid, edid_length, pixel_per_second_limit); the pixel-area limit
\* is not forwarded.
C3_OlderForwardsFour ==
    AtMost_1_11(hdr.major, hdr.minor) =>
        \A i \in DOMAIN recent :
            /\ Len(recent[i].invoked) >= 1
            /\ \A k \in DOMAIN recent[i].invoked :
                   recent[i].invoked[k].argv = FourOf(recent[i].args)

C5_AreaLimitHasNoEffect ==
    (unit.form = 4 /\ Twice /\ AgreeButArea(recent[1].args, recent[2].args))
        => /\ ArgvOf(recent[1]) = ArgvOf(recent[2])
           /\ recent[1].ret = recent[2].ret
           /\ recent[2].ret \notin ConnectResults

\* two calls under the four-argument form that differ in the area limit only
C5_Witness ==
    /\ unit.form = 4
    /\ Twice
    /\ AgreeButArea(recent[1].args, recent[2].args)
    /\ recent[1].args.pixel_area_limit # recent[2].args.pixel_area_limit
    /\ recent[1].args.pixel_area_limit
           # recent[1].args.pixel_per_second_limit

(* ---- C6 -------------------------------------------------------------------- *)
\* C6: when the headers define EVDI_CONNECT_COMPAT this file contributes no
\* definition of evdi_connect_compat, and when they do not it contributes
\* exactly one; its shim is called only in the second case.
C6_DefinedOnlyWithoutNative ==
    /\ phase = "built" =>
          /\ hdr.compat => unit.defs = 0
          /\ ~hdr.compat => unit.defs = 1
    /\ Called => ~hdr.compat

\* a build against headers that define EVDI_CONNECT_COMPAT
C6_Witness ==
    /\ phase = "built"
    /\ hdr.compat
    /\ unit.defs = 0

(* ---- C7 -------------------------------------------------------------------- *)
\* C7: within one build every call of evdi_connect the shim makes has the
\* same form, the one fixed when the file was compiled, whatever the
\* arguments and however earlier calls ended.
C7_FormFixedPerBuild ==
    \A i \in DOMAIN recent : \A k \in DOMAIN recent[i].invoked :
        /\ Len(recent[i].invoked[k].argv) = unit.form
        /\ \A j \in DOMAIN recent : \A l \in DOMAIN recent[j].invoked :
               Len(recent[i].invoked[k].argv) = Len(recent[j].invoked[l].argv)

\* a call with other arguments after a call that was refused
C7_Witness ==
    /\ Twice
    /\ recent[1].invoked[1].result = "refused"
    /\ recent[1].args.handle # recent[2].args.handle
    /\ recent[1].args.pixel_area_limit # recent[2].args.pixel_area_limit
    /\ Len(recent[1].invoked[1].argv) = Len(recent[2].invoked[1].argv)

OwnArgumentsOnly ==
    /\ \A i \in DOMAIN recent : \A k \in DOMAIN recent[i].invoked :
           recent[i].invoked[k].argv \in {FiveOf(recent[i].args),
                                          FourOf(recent[i].args)}
    /\ (Twice /\ recent[1].args = recent[2].args)
           => ArgvOf(recent[1]) = ArgvOf(recent[2])

\* a call of the shim leaves the EDID bytes, the headers and the build alone
CallKeepsCallerData ==
    recent' # recent =>
        /\ edidMem' = edidMem
        /\ unit' = unit
        /\ recent'[Len(recent')].args \in Args

\* C9: the shim keeps nothing between calls: what a call forwards depends on
\* that call's own arguments and the build's version only, never on earlier
\* calls, and a call leaves the caller's EDID bytes and argument values
\* unchanged.
C9_Stateless == []OwnArgumentsOnly /\ [][CallKeepsCallerData]_vars

\* the same arguments passed twice, the two EDID buffers holding different
\* bytes
C9_Witness ==
    /\ Twice
    /\ recent[1].args = recent[2].args
    /\ ArgvOf(recent[1]) = ArgvOf(recent[2])
    /\ edidMem["edidA"] # edidMem["edidB"]

(* ---- C10 ------------------------------------------------------------------- *)
\* C10: the dispatch is monotone in the version: if a build against
\* (major1, minor1) selects the five-argument form, so does a build against
\* every (major2, minor2) that is not smaller in lexicographic order.
C10_DispatchMonotone ==
    (phase = "built" /\ unit.form = 5) =>
        \A M \in Majors, m \in Minors :
            VersionLeq(hdr.major, hdr.minor, M, m)
                => CallForm([compat |-> FALSE, major |-> M, minor |-> m]) = 5

====
